---- MODULE Spec2Model ----
(***************************************************************************)
(* A model of FBXAnimationExporter.py: the procedures that tag scene nodes, *)
(* connect export nodes, clear garbage and export FBX files, run against a  *)
(* small model of the host application's scene (nodes, attributes, message  *)
(* connections, anim layers) and of the project directory.                  *)
(*                                                                         *)
(* Host conventions the procedures rely on:                                 *)
(*   - a node name that names no node makes objExists false;                *)
(*   - listRelatives and listConnections return None, not an empty list,    *)
(*     when there is nothing to return, so iterating or appending to the    *)
(*     result raises TypeError / AttributeError;                            *)
(*   - getAttr of an attribute that does not exist raises ValueError;       *)
(*   - a raised exception ends the running procedure and its callers: the   *)
(*     scene stays as it was at the raise.                                  *)
(***************************************************************************)
EXTENDS Naturals, Sequences, FiniteSets, TLC

VARIABLES scene, disk, ui, last, calls

vars == <<scene, disk, ui, last, calls>>

\* ------------------------------------------------------------------ bounds

\* The number of procedure calls in one behaviour.
MaxCalls == 2

\* Frame numbers of playback ranges and sub-ranges are drawn from 0..MaxFrame.
MaxFrame == 2

\* ------------------------------------------------------------ scene model

\* A node of the host scene: its type, its namespace, its DAG parent ("" is
\* the world) and `val`, the values of the attributes the procedures add or
\* set; a node has the attribute a exactly when a is in DOMAIN val.
EmptyNode(type, ns, parent) ==
    [type |-> type, ns |-> ns, parent |-> parent, val |-> <<>>]

\* The value the host gives a new attribute: a bool is false, a float 0, a
\* string empty; a message attribute has no value.
DefaultValue(a) ==
    IF a \in {"origin", "deleteMe", "export", "moveToOrigin", "zeroOrigin",
              "useSubRange"} THEN FALSE
    ELSE IF a \in {"startFrame", "endFrame"} THEN 0
    ELSE IF a \in {"exportName", "animLayers"} THEN ""
    ELSE "message"

\* cmds.objExists(node)
objExists(s, n) == n \in DOMAIN s.node

\* cmds.objExists(node + ".attr") / cmds.attributeQuery(attr, node=, exists=True)
attrExists(s, n, a) == objExists(s, n) /\ a \in DOMAIN s.node[n].val

\* cmds.getAttr(node + ".attr")
getAttr(s, n, a) == s.node[n].val[a]

\* cmds.setAttr(node + ".attr", v)
setAttr(s, n, a, v) ==
    [s EXCEPT !.node[n].val = (a :> v) @@ @]

\* cmds.addAttr(node, longName=attr, ...): the attribute with its default value.
addAttr(s, n, a) == setAttr(s, n, a, DefaultValue(a))

\* Node types the host derives from transform (cmds.ls(tr=True) lists them).
TransformTypes == {"transform", "joint"}

RECURSIVE Ancestors(_, _)
\* The DAG ancestors of node n ("" is the world).
Ancestors(s, n) ==
    IF s.node[n].parent = "" \/ ~objExists(s, s.node[n].parent) THEN {}
    ELSE {s.node[n].parent} \cup Ancestors(s, s.node[n].parent)

RECURSIVE SelectNames(_, _, _)
\* The names of `seq` that are in the set `keep`, in order.
SelectNames(seq, keep, acc) ==
    IF seq = <<>> THEN acc
    ELSE SelectNames(Tail(seq), keep,
                     IF Head(seq) \in keep THEN Append(acc, Head(seq)) ELSE acc)

RECURSIVE SelectPairs(_, _, _)
\* The connections of `seq` with both ends in `keep`, in order.
SelectPairs(seq, keep, acc) ==
    IF seq = <<>> THEN acc
    ELSE SelectPairs(Tail(seq), keep,
                     IF Head(seq)[1] \in keep /\ Head(seq)[2] \in keep
                     THEN Append(acc, Head(seq)) ELSE acc)

Range(seq) == {seq[i] : i \in DOMAIN seq}

\* F applied to the value of v, which is computed once (an assignment to a
\* local variable of a procedure).
Bind(v, F(_)) == CHOOSE r \in {F(x) : x \in {v}} : TRUE

\* lsJoints without the namespace pattern.
lsJoints_AnyNamespace(s, ns) ==
    SelectNames(s.order,
                {n \in DOMAIN s.node : s.node[n].type = "joint"}, <<>>)

\* cmds.ls(type="joint") and cmds.ls(ns + ":*", type="joint"): in scene order.
lsJoints(s, ns) ==
    SelectNames(s.order,
                {n \in DOMAIN s.node : /\ s.node[n].type = "joint"
                                       /\ (ns # "" => s.node[n].ns = ns)},
                <<>>)

\* cmds.ls(tr=True): the transforms of the scene (joints are transforms).
lsTransforms(s) ==
    SelectNames(s.order,
                {n \in DOMAIN s.node : s.node[n].type \in TransformTypes}, <<>>)

\* cmds.delete(node): the node goes, with its DAG descendants and with every
\* connection to or from a deleted node.
delete(s, n) ==
    LET gone == {m \in DOMAIN s.node : m = n \/ n \in Ancestors(s, m)}
        keep == DOMAIN s.node \ gone
    IN  [s EXCEPT !.node = [m \in keep |-> s.node[m]],
                  !.order = SelectNames(s.order, keep, <<>>),
                  !.xndConn = SelectPairs(s.xndConn, keep, <<>>),
                  !.xmsConn = SelectPairs(s.xmsConn, keep, <<>>),
                  !.trConn = SelectPairs(s.trConn, keep, <<>>),
                  !.selection = SelectNames(s.selection, keep, <<>>)]

\* ------------------------------------------------------- low-level procs

\* SIP_TagForOrigin without the test of the attribute on line 22.
SIP_TagForOrigin_Overwrite(s, node) ==
    IF objExists(s, node)
    THEN setAttr(addAttr(s, node, "origin"), node, "origin", TRUE)
    ELSE s

\* SIP_TagForOrigin without the setAttr of line 24.
SIP_TagForOrigin_NoSetAttr(s, node) ==
    IF objExists(s, node) /\ ~attrExists(s, node, "origin")
    THEN addAttr(s, node, "origin")
    ELSE s

SIP_TagForOrigin(s, node) ==
    IF objExists(s, node) /\ ~attrExists(s, node, "origin")
    THEN setAttr(addAttr(s, node, "origin"), node, "origin", TRUE)
    ELSE s

SIP_TagForMeshExport(s, mesh) ==
    IF objExists(s, mesh) /\ ~attrExists(s, mesh, "exportMeshes")
    THEN addAttr(s, mesh, "exportMeshes")
    ELSE s

SIP_TagForExportNode(s, node) ==
    IF objExists(s, node) /\ ~attrExists(s, node, "exportNode")
    THEN addAttr(s, node, "exportNode")
    ELSE s

RECURSIVE FirstOrigin(_, _)
\* The loop of SIP_ReturnOrigin over the listed joints.
FirstOrigin(s, joints) ==
    IF joints = <<>> THEN "Error"
    ELSE IF attrExists(s, Head(joints), "origin")
            /\ getAttr(s, Head(joints), "origin")
         THEN Head(joints)
         ELSE FirstOrigin(s, Tail(joints))

SIP_ReturnOrigin(s, ns) == FirstOrigin(s, lsJoints(s, ns))

RECURSIVE ClearLoop(_, _)
\* The loop of SIP_ClearGarbage over the list taken before the first delete.
ClearLoop(s, list) ==
    IF list = <<>> THEN s
    ELSE Bind(IF attrExists(s, Head(list), "deleteMe")
              THEN delete(s, Head(list)) ELSE s,
              LAMBDA s1 : ClearLoop(s1, Tail(list)))

SIP_ClearGarbage(s) == ClearLoop(s, lsTransforms(s))

SIP_TagForGarbage(s, node) ==
    IF objExists(s, node) /\ ~attrExists(s, node, "deleteMe")
    THEN setAttr(addAttr(s, node, "deleteMe"), node, "deleteMe", TRUE)
    ELSE s

\* ------------------------------------------------ export settings node procs

\* cmds.listConnections(node + ".exportNode"): the nodes at the other end of
\* the connections of the plug, in connection order (None when there are none;
\* callers see that as an empty `list` with `none` set).
listConnectionsXnd(s, n) ==
    LET F[i \in 0..Len(s.xndConn)] ==
            IF i = 0 THEN <<>>
            ELSE IF s.xndConn[i][1] = n THEN Append(F[i - 1], s.xndConn[i][2])
            ELSE IF s.xndConn[i][2] = n THEN Append(F[i - 1], s.xndConn[i][1])
            ELSE F[i - 1]
    IN  F[Len(s.xndConn)]

\* The list SIP_ReturnFBXExportNodes returns; `none` says that it is None.
SIP_ReturnFBXExportNodes(s, origin) ==
    IF attrExists(s, origin, "exportNode")
    THEN [list |-> listConnectionsXnd(s, origin),
          none |-> listConnectionsXnd(s, origin) = <<>>]
    ELSE [list |-> <<>>, none |-> FALSE]

\* The attributes SIP_AddFBXNodeAttrs adds when they are missing.
FBXNodeAttrs ==
    {"export", "moveToOrigin", "zeroOrigin", "exportName", "useSubRange",
     "startFrame", "endFrame", "exportMeshes", "exportNode", "animLayers"}

SIP_AddFBXNodeAttrs(s, fbxExportNode) ==
    [s EXCEPT !.node[fbxExportNode].val =
                  @ @@ [a \in FBXNodeAttrs |-> DefaultValue(a)]]

\* cmds.connectAttr(src + ".exportNode", dst + ".exportNode") without force:
\* connecting a plug that is already the destination of another source raises;
\* repeating an existing connection only warns.
connectAttrXnd(s, src, dst) ==
    IF <<src, dst>> \in Range(s.xndConn) THEN [s |-> s, err |-> ""]
    ELSE IF \E c \in Range(s.xndConn) : c[2] = dst
         THEN [s |-> s, err |-> "RuntimeError"]
         ELSE [s |-> [s EXCEPT !.xndConn = Append(@, <<src, dst>>)], err |-> ""]

\* Line 136 names fbxExportNode, which is no variable of the procedure: the
\* call raises NameError when exportNode lacks the exportNode attribute.
SIP_ConnectFBXExportNodeToOrigin(s, exportNode, origin) ==
    IF objExists(s, origin) /\ objExists(s, exportNode)
    THEN LET s1 == IF ~attrExists(s, origin, "exportNode")
                   THEN SIP_TagForExportNode(s, origin) ELSE s
         IN  IF ~attrExists(s1, exportNode, "exportNode")
             THEN [s |-> s1, err |-> "NameError"]
             ELSE connectAttrXnd(s1, origin, exportNode)
    ELSE [s |-> s, err |-> ""]

SIP_DeleteFBXExportNode(s, exportNode) ==
    IF objExists(s, exportNode) THEN delete(s, exportNode) ELSE s

\* The name the host gives a new node asked for as base + "#" (or a duplicate
\* of `base`): base followed by the first number that names no node.
NewName(s, base) ==
    base \o ToString(CHOOSE k \in 1..(Cardinality(DOMAIN s.node) + 1) :
                        /\ (base \o ToString(k)) \notin DOMAIN s.node
                        /\ \A j \in 1..(k - 1) :
                              (base \o ToString(j)) \in DOMAIN s.node)

\* cmds.group(em=True, name=...): a new empty transform under the world.
createNode(s, name, type, ns) ==
    [s EXCEPT !.node = (name :> EmptyNode(type, ns, "")) @@ @,
              !.order = Append(@, name)]

SIP_CreateFBXExportNode(s, characterName) ==
    LET fbxExportNode == NewName(s, characterName \o "FBXExportNode")
        s1 == createNode(s, fbxExportNode, "transform",
                         IF objExists(s, characterName)
                         THEN s.node[characterName].ns ELSE "")
        s2 == SIP_AddFBXNodeAttrs(s1, fbxExportNode)
    IN  [s |-> setAttr(s2, fbxExportNode, "export", TRUE),
         ret |-> fbxExportNode]

\* ------------------------------------------------------ model export procs

\* cmds.connectAttr(src + ".exportMeshes", dst + ".exportMeshes", force=True):
\* a connection that is there already stays (the host warns); a connection
\* from another source into dst is replaced.
connectAttrXmsForce(s, src, dst) ==
    IF <<src, dst>> \in Range(s.xmsConn) THEN s
    ELSE [s EXCEPT !.xmsConn =
                      Append(SelectSeq(@, LAMBDA c : c[2] # dst), <<src, dst>>)]

RECURSIVE ConnectMeshesLoop_StopAtMissing(_, _, _)
\* ConnectMeshesLoop leaving the loop at the first mesh that does not exist.
ConnectMeshesLoop_StopAtMissing(s, exportNode, meshes) ==
    IF meshes = <<>> \/ ~objExists(s, Head(meshes)) THEN s
    ELSE Bind(connectAttrXmsForce(
                  IF ~attrExists(s, Head(meshes), "exportMeshes")
                  THEN SIP_TagForMeshExport(s, Head(meshes)) ELSE s,
                  exportNode, Head(meshes)),
              LAMBDA s1 : ConnectMeshesLoop_StopAtMissing(s1, exportNode,
                                                          Tail(meshes)))

RECURSIVE ConnectMeshesLoop(_, _, _)
\* The loop of SIP_ConnectFBXExportNodeToMeshes: every mesh that exists is
\* tagged when it lacks the attribute, and connected.
ConnectMeshesLoop(s, exportNode, meshes) ==
    IF meshes = <<>> THEN s
    ELSE Bind(IF objExists(s, Head(meshes))
              THEN connectAttrXmsForce(
                       IF ~attrExists(s, Head(meshes), "exportMeshes")
                       THEN SIP_TagForMeshExport(s, Head(meshes)) ELSE s,
                       exportNode, Head(meshes))
              ELSE s,
              LAMBDA s1 : ConnectMeshesLoop(s1, exportNode, Tail(meshes)))

SIP_ConnectFBXExportNodeToMeshes(s, exportNode, meshes) ==
    IF objExists(s, exportNode)
    THEN ConnectMeshesLoop(IF ~attrExists(s, exportNode, "exportMeshes")
                           THEN SIP_AddFBXNodeAttrs(s, exportNode) ELSE s,
                           exportNode, meshes)
    ELSE s

\* cmds.disconnectAttr(src + ".exportMeshes", dst + ".exportMeshes"): the host
\* raises RuntimeError when there is no such connection.
disconnectAttrXms(s, src, dst) ==
    IF <<src, dst>> \in Range(s.xmsConn)
    THEN [s |-> [s EXCEPT !.xmsConn = SelectSeq(@, LAMBDA c : c # <<src, dst>>)],
          err |-> ""]
    ELSE [s |-> s, err |-> "RuntimeError"]

\* DisconnectMeshesLoop returning after the first mesh.
DisconnectMeshesLoop_FirstOnly(s, exportNode, meshes) ==
    IF meshes = <<>> THEN [s |-> s, err |-> ""]
    ELSE IF ~objExists(s, Head(meshes)) THEN [s |-> s, err |-> ""]
    ELSE disconnectAttrXms(s, exportNode, Head(meshes))

RECURSIVE DisconnectMeshesLoop(_, _, _)
\* The loop of SIP_DisconnectFBXExporterNodeToMeshes; an exception ends it.
DisconnectMeshesLoop(s, exportNode, meshes) ==
    IF meshes = <<>> THEN [s |-> s, err |-> ""]
    ELSE IF ~objExists(s, Head(meshes))
         THEN DisconnectMeshesLoop(s, exportNode, Tail(meshes))
         ELSE Bind(disconnectAttrXms(s, exportNode, Head(meshes)), LAMBDA r :
                  IF r.err # "" THEN r
                  ELSE DisconnectMeshesLoop(r.s, exportNode, Tail(meshes)))

SIP_DisconnectFBXExporterNodeToMeshes(s, exportNode, meshes) ==
    IF objExists(s, exportNode)
    THEN DisconnectMeshesLoop(s, exportNode, meshes)
    ELSE [s |-> s, err |-> ""]

\* cmds.listConnections(exportNode + ".exportMeshes", source=False,
\* destination=True): the meshes the attribute is connected to, None (`none`)
\* when there is none; the host raises ValueError when the node or the
\* attribute does not exist.
SIP_ReturnConnectedMeshes(s, exportNode) ==
    IF ~attrExists(s, exportNode, "exportMeshes")
    THEN [list |-> <<>>, none |-> FALSE, err |-> "ValueError"]
    ELSE LET F[i \in 0..Len(s.xmsConn)] ==
                 IF i = 0 THEN <<>>
                 ELSE IF s.xmsConn[i][1] = exportNode
                      THEN Append(F[i - 1], s.xmsConn[i][2])
                      ELSE F[i - 1]
             found == F[Len(s.xmsConn)]
         IN  [list |-> found, none |-> found = <<>>, err |-> ""]

\* -------------------------------------------------- animation export procs

\* cmds.listRelatives(node, allDescendents=True): the DAG descendants, in
\* scene order (None when there are none: the empty sequence here, which the
\* callers treat as None).
listRelativesAD(s, n) ==
    SelectNames(s.order, {m \in DOMAIN s.node : n \in Ancestors(s, m)}, <<>>)

\* cmds.listRelatives(node, ad=True, type="joint")
listRelativesADJoints(s, n) ==
    SelectNames(s.order,
                {m \in DOMAIN s.node : /\ n \in Ancestors(s, m)
                                       /\ s.node[m].type = "joint"}, <<>>)

\* hierarchy.append(root) on None raises AttributeError; otherwise every
\* node of the hierarchy is unlocked.
SIP_UnlockJointTransforms(s, root) ==
    IF listRelativesAD(s, root) = <<>>
    THEN [s |-> s, err |-> "AttributeError"]
    ELSE LET hierarchy == Range(listRelativesAD(s, root)) \cup {root}
         IN  [s |-> [s EXCEPT !.node = [m \in DOMAIN s.node |->
                        IF m \in hierarchy
                        THEN [s.node[m] EXCEPT !.val = ("lock" :> FALSE) @@ @]
                        ELSE s.node[m]]],
              err |-> ""]

RECURSIVE DupPath(_, _, _, _)
\* The name of the copy of node m in the duplicate of the hierarchy of
\* `origin`: the copy of the root gets a new name, a copy below it keeps its
\* short name and is named by its path.
DupPath(s, origin, rootName, m) ==
    IF m = origin THEN rootName
    ELSE DupPath(s, origin, rootName, s.node[m].parent) \o "|" \o m

\* cmds.duplicate(origin): a copy of the node and of its descendants, with
\* their attributes and values and without their connections, beside the
\* original. `root` is the name of the copy of origin (dupHierarchy[0]).
duplicate(s, origin) ==
    Bind(<<origin>> \o listRelativesAD(s, origin), LAMBDA srcSeq :
    Bind(NewName(s, origin), LAMBDA rootName :
      LET name(m) == DupPath(s, origin, rootName, m)
          copies == {name(m) : m \in Range(srcSeq)}
          src(c) == CHOOSE m \in Range(srcSeq) : name(m) = c
          copy(c) == [s.node[src(c)] EXCEPT
                         !.parent = IF src(c) = origin THEN s.node[origin].parent
                                    ELSE name(s.node[src(c)].parent)]
      IN  [s |-> [s EXCEPT
                    !.node = [c \in copies |-> copy(c)] @@ @,
                    !.order = @ \o [i \in 1..Len(srcSeq) |-> name(srcSeq[i])]],
           root |-> rootName]))

RECURSIVE DeleteNonJoints(_, _)
\* The loop of SIP_CopyAndConnectSkeleton that deletes what is not a joint.
DeleteNonJoints(s, tempHierarchy) ==
    IF tempHierarchy = <<>> THEN s
    ELSE Bind(IF objExists(s, Head(tempHierarchy))
                 /\ s.node[Head(tempHierarchy)].type # "joint"
              THEN delete(s, Head(tempHierarchy)) ELSE s,
              LAMBDA s1 : DeleteNonJoints(s1, Tail(tempHierarchy)))

\* SIP_ConnectAttrs for translate, rotate and scale of each pair of joints.
ConnectHierarchies(s, origHierarchy, newHierarchy) ==
    [s EXCEPT !.trConn = @ \o [i \in 1..Len(origHierarchy) |->
                                  <<origHierarchy[i], newHierarchy[i]>>]]

\* Lines 295-311, on the duplicate `root` in the scene s1 that is left of the
\* duplicated hierarchy once the nodes that are no joints are deleted.
ConnectCopy(s1, origin, root) ==
    Bind(SIP_UnlockJointTransforms(s1, root), LAMBDA un :
      IF un.err # "" THEN [s |-> s1, ret |-> <<>>, err |-> un.err]
      ELSE
        Bind(listRelativesADJoints(un.s, origin), LAMBDA origDesc :
        Bind(listRelativesADJoints(un.s, root), LAMBDA newDesc :
          IF origDesc = <<>> \/ newDesc = <<>>
          THEN [s |-> un.s, ret |-> <<>>, err |-> "AttributeError"]
          ELSE IF Len(newDesc) < Len(origDesc)
          THEN [s |-> un.s, ret |-> <<>>, err |-> "IndexError"]
          ELSE
            Bind(ConnectHierarchies(un.s, Append(origDesc, origin),
                                    Append(newDesc, root)), LAMBDA s2 :
              [s |-> SIP_TagForGarbage([s2 EXCEPT !.node[root].parent = ""],
                                       root),
               ret |-> Append(newDesc, root), err |-> ""]))))

\* [s, ret, err]: the scene, the returned newHierarchy and the exception
\* raised, if any. The scene at a raise holds the untagged duplicate.
SIP_CopyAndConnectSkeleton(s, origin) ==
    IF origin # "Error" /\ objExists(s, origin)
    THEN Bind(duplicate(s, origin), LAMBDA dup :
         Bind(listRelativesAD(dup.s, dup.root), LAMBDA tempHierarchy :
           IF tempHierarchy = <<>>
           THEN [s |-> dup.s, ret |-> <<>>, err |-> "TypeError"]
           ELSE Bind(DeleteNonJoints(dup.s, tempHierarchy), LAMBDA s1 :
                  ConnectCopy(s1, origin, dup.root))))
    ELSE [s |-> s, ret |-> <<>>, err |-> ""]

\* cmds.animLayer(...): a new anim layer node holding the selected objects.
animLayer(s, name, override, passthrough) ==
    LET s1 == createNode(s, name, "animLayer", "")
    IN  [s1 EXCEPT !.node[name].val =
                      [mute |-> FALSE, solo |-> FALSE, override |-> override,
                       passthrough |-> passthrough, lock |-> FALSE]]

\* SIP_TransformToOrigin taking the else branch of line 329 whatever
\* zeroOrigin is.
SIP_TransformToOrigin_AlwaysAdditive(s, origin, startFrame, endFrame, zeroOrigin) ==
    Bind(NewName(s, "AnimLayer"), LAMBDA newAnimLayer :
    Bind(animLayer([s EXCEPT !.selection = <<origin>>], newAnimLayer,
                   FALSE, FALSE), LAMBDA s2 :
    Bind(SIP_TagForGarbage(s2, newAnimLayer), LAMBDA s3 :
        [s3 EXCEPT !.node[newAnimLayer].val = ("weight" :> 1) @@ @,
                   !.node[origin].val =
                       [translate |-> <<0, 0, 0>>, rotate |-> <<0, 0, 0>>,
                        keyLayer |-> newAnimLayer, keyTime |-> startFrame,
                        baked |-> <<startFrame, endFrame>>] @@ @])))

\* The origin is baked, a new anim layer is made (override or additive), it is
\* tagged as garbage and given weight 1, and the origin is zeroed and keyed on
\* the layer at startFrame.
SIP_TransformToOrigin(s, origin, startFrame, endFrame, zeroOrigin) ==
    Bind(NewName(s, "AnimLayer"), LAMBDA newAnimLayer :
    Bind(animLayer([s EXCEPT !.selection = <<origin>>], newAnimLayer,
                   zeroOrigin, zeroOrigin), LAMBDA s2 :
    Bind(SIP_TagForGarbage(s2, newAnimLayer), LAMBDA s3 :
        [s3 EXCEPT !.node[newAnimLayer].val = ("weight" :> 1) @@ @,
                   !.node[origin].val =
                       [translate |-> <<0, 0, 0>>, rotate |-> <<0, 0, 0>>,
                        keyLayer |-> newAnimLayer, keyTime |-> startFrame,
                        baked |-> <<startFrame, endFrame>>] @@ @])))

\* cmds.listConnections(node + ".translateX", source=False, d=True)
listConnectionsTr(s, n) ==
    LET F[i \in 0..Len(s.trConn)] ==
            IF i = 0 THEN <<>>
            ELSE IF s.trConn[i][1] = n THEN Append(F[i - 1], s.trConn[i][2])
            ELSE F[i - 1]
    IN  F[Len(s.trConn)]

\* ---------------------------------------------------------- animLayers procs

\* The node types of the host that the scenes hold. "animLayers", the type
\* line 368 asks cmds.ls for, is none of them: the anim layer type is
\* "animLayer".
HostTypes == {"transform", "joint", "animLayer"}

\* cmds.ls(type=t): [list, err]; the host raises RuntimeError for a type it
\* does not know.
lsType(s, t) ==
    IF t \notin HostTypes THEN [list |-> <<>>, err |-> "RuntimeError"]
    ELSE [list |-> SelectNames(s.order,
                               {n \in DOMAIN s.node : s.node[n].type = t}, <<>>),
          err |-> ""]

\* str(b) of a Python bool.
str(b) == IF b THEN "True" ELSE "False"

\* The entry line 374 appends for a layer with the given mute and solo values.
LayerEntry(curLayer, mute, solo) ==
    curLayer \o ",  mute = " \o str(mute) \o ", solo = " \o str(solo) \o ";"

RECURSIVE LayerString(_, _, _)
\* The loop of lines 371-374 over the layers cmds.ls returned.
LayerString(s, animLayers, animLayerCommandStr) ==
    IF animLayers = <<>> THEN animLayerCommandStr
    ELSE LayerString(s, Tail(animLayers),
                     animLayerCommandStr
                         \o LayerEntry(Head(animLayers),
                                       getAttr(s, Head(animLayers), "mute"),
                                       getAttr(s, Head(animLayers), "solo")))

\* cmds.setAttr(name, value, type="string") where name is the text line 376
\* builds, exportNode + "animLayers" with no "." between them: it names no
\* attribute of any node (node names hold no attribute name), and the host
\* raises RuntimeError.
setAttrByName(s, name, value) == [s |-> s, err |-> "RuntimeError"]

\* [s, err] after SIP_SetAnimLayerSettings(exportNode). attributeQuery raises
\* when the node does not exist.
SIP_SetAnimLayerSettings(s, exportNode) ==
    IF ~objExists(s, exportNode) THEN [s |-> s, err |-> "RuntimeError"]
    ELSE LET s1 == IF ~attrExists(s, exportNode, "animLayers")
                   THEN SIP_AddFBXNodeAttrs(s, exportNode) ELSE s
             animLayers == lsType(s1, "animLayers")
         IN  IF animLayers.err # "" THEN [s |-> s1, err |-> animLayers.err]
             ELSE setAttrByName(s1, exportNode \o "animLayers",
                                LayerString(s1, animLayers.list, ""))

\* The guard of line 389 holds only for an export node WITHOUT the animLayers
\* attribute, and getAttr of that attribute then raises; for a node that has
\* the attribute the procedure does nothing.
SIP_SetAnimLayersFromSettings(s, exportNode) ==
    IF objExists(s, exportNode) /\ ~attrExists(s, exportNode, "animLayers")
    THEN [s |-> s, err |-> "ValueError"]
    ELSE [s |-> s, err |-> ""]

\* --------------------------------------------------------------- export procs

\* One entry of the record of what a call did: the export node a loop
\* iteration began on ("node"), a skeleton copy ("dup"), a call of
\* SIP_TransformToOrigin ("transform", with its arguments), the call of
\* SIP_SetFBXExportOptions_animation ("options"), a file written ("file") and
\* the warning for a missing file name ("warn").
Event(kind, char, node, origin, startFrame, endFrame, flag, path, sel) ==
    [kind |-> kind, char |-> char, node |-> node, origin |-> origin,
     startFrame |-> startFrame, endFrame |-> endFrame, flag |-> flag,
     path |-> path, sel |-> sel]

\* SIP_ExportFBX without the test of the file name on line 439.
SIP_ExportFBX_AnyFileName(s, d, log, char, origin, exportNode) ==
    LET curWorkspace == s.workspace
        fileName == getAttr(s, exportNode, "exportName")
        newFBX == curWorkspace \o fileName
    IN  IF ~attrExists(s, exportNode, "exportName")
        THEN [disk |-> d, log |-> log, err |-> "ValueError"]
        ELSE [disk |-> d \cup {newFBX},
              log |-> Append(log, Event("file", char, exportNode, origin, 0, 0,
                                        FALSE, newFBX, s.selection)),
              err |-> ""]

\* [disk, log, err]: the file is the workspace root directory followed by the
\* export name, and holds the selection.
SIP_ExportFBX(s, d, log, char, origin, exportNode) ==
    LET curWorkspace == s.workspace
        fileName == getAttr(s, exportNode, "exportName")
        newFBX == curWorkspace \o fileName
    IN  IF ~attrExists(s, exportNode, "exportName")
        THEN [disk |-> d, log |-> log, err |-> "ValueError"]
        ELSE IF fileName # ""
        THEN [disk |-> d \cup {newFBX},
              log |-> Append(log, Event("file", char, exportNode, origin, 0, 0,
                                        FALSE, newFBX, s.selection)),
              err |-> ""]
        ELSE [disk |-> d,
              log |-> Append(log, Event("warn", char, exportNode, origin, 0, 0,
                                        FALSE, "", <<>>)),
              err |-> ""]

\* cmds.playbackOptions(query=True, minTime=1), which lines 476 and 477 both
\* ask for.
playbackMinTime(s) == s.minTime

\* The attributes lines 479-487 read with getAttr.
RangeAttrs(s, n) ==
    {"useSubRange", "moveToOrigin"}
        \cup (IF attrExists(s, n, "useSubRange") /\ getAttr(s, n, "useSubRange")
              THEN {"startFrame", "endFrame"} ELSE {})
        \cup (IF attrExists(s, n, "moveToOrigin") /\ getAttr(s, n, "moveToOrigin")
              THEN {"zeroOrigin"} ELSE {})

\* Lines 485-498, with the skeleton copy cp and the frame range at hand.
ExportRange(st, char, origin, meshes, cur, cp, startFrame, endFrame) ==
    LET exportRig == cp.ret
        move == getAttr(cp.s, cur, "moveToOrigin")
        newOrigin == listConnectionsTr(cp.s, origin)
        zeroOriginFlag == getAttr(cp.s, cur, "zeroOrigin")
        log1 == Append(st.log, Event("dup", char, cur, origin, 0, 0, FALSE,
                                     "", exportRig))
        log2 == IF move
                THEN Append(log1, Event("transform", char, cur, newOrigin[1],
                                        startFrame, endFrame, zeroOriginFlag,
                                        "", <<>>))
                ELSE log1
        log3 == Append(log2, Event("options", char, cur, origin, startFrame,
                                   endFrame, FALSE, "", <<>>))
    IN  IF move /\ newOrigin = <<>>
        THEN [st EXCEPT !.s = cp.s, !.log = log1, !.err = "TypeError"]
        ELSE
          Bind(IF move
               THEN SIP_TransformToOrigin(cp.s, newOrigin[1], startFrame,
                                          endFrame, zeroOriginFlag)
               ELSE cp.s, LAMBDA s1 :
          Bind([s1 EXCEPT !.selection = exportRig \o meshes], LAMBDA s2 :
          Bind(SIP_SetAnimLayersFromSettings(s2, cur), LAMBDA sal :
            IF sal.err # ""
            THEN [st EXCEPT !.s = s2, !.log = log2, !.err = sal.err]
            ELSE Bind(SIP_ExportFBX(s2, st.disk, log3, char, origin, cur),
                      LAMBDA ex : [s |-> s2, disk |-> ex.disk, log |-> ex.log,
                                   err |-> ex.err]))))

\* Lines 474-498: the body of the loop for an export node that is exported.
\* st is [s, disk, log, err].
ExportBody(st, char, origin, meshes, cur) ==
    Bind(SIP_CopyAndConnectSkeleton(st.s, origin), LAMBDA cp :
      IF cp.err # ""
      THEN [st EXCEPT !.s = cp.s, !.err = cp.err]
      ELSE IF ~(RangeAttrs(cp.s, cur) \subseteq DOMAIN cp.s.node[cur].val)
      THEN [st EXCEPT !.s = cp.s, !.err = "ValueError"]
      ELSE LET subAnimCheck == getAttr(cp.s, cur, "useSubRange")
               startFrame == IF subAnimCheck
                             THEN getAttr(cp.s, cur, "startFrame")
                             ELSE playbackMinTime(cp.s)
               endFrame == IF subAnimCheck
                           THEN getAttr(cp.s, cur, "endFrame")
                           ELSE playbackMinTime(cp.s)
           IN  ExportRange(st, char, origin, meshes, cur, cp, startFrame,
                           endFrame))

\* ExportNodeStep without the test of the export attribute on line 473.
ExportNodeStep_IgnoreExportFlag(st, char, origin, meshes, cur) ==
    Bind([st EXCEPT !.log = Append(@, Event("node", char, cur, origin,
                                            0, 0, FALSE, "", <<>>))],
         LAMBDA st1 :
      IF ~attrExists(st.s, cur, "export")
      THEN [st1 EXCEPT !.err = "ValueError"]
      ELSE Bind(IF origin # "Error"
                THEN ExportBody(st1, char, origin, meshes, cur)
                ELSE st1, LAMBDA st2 :
             IF st2.err # "" THEN st2
             ELSE [st2 EXCEPT !.s = SIP_ClearGarbage(st2.s)]))

\* Lines 472-500: one iteration of the loop over the export nodes.
ExportNodeStep(st, char, origin, meshes, cur) ==
    Bind([st EXCEPT !.log = Append(@, Event("node", char, cur, origin,
                                            0, 0, FALSE, "", <<>>))],
         LAMBDA st1 :
      IF ~attrExists(st.s, cur, "export")
      THEN [st1 EXCEPT !.err = "ValueError"]
      ELSE Bind(IF getAttr(st.s, cur, "export") /\ origin # "Error"
                THEN ExportBody(st1, char, origin, meshes, cur)
                ELSE st1, LAMBDA st2 :
             IF st2.err # "" THEN st2
             ELSE [st2 EXCEPT !.s = SIP_ClearGarbage(st2.s)]))

RECURSIVE ExportNodesLoop(_, _, _, _, _)
ExportNodesLoop(st, char, origin, meshes, exportNodes) ==
    IF exportNodes = <<>> \/ st.err # "" THEN st
    ELSE Bind(ExportNodeStep(st, char, origin, meshes, Head(exportNodes)),
              LAMBDA st1 : ExportNodesLoop(st1, char, origin, meshes,
                                           Tail(exportNodes)))

\* The meshes SIP_FindMeshWithBlendshapes returns: the parent transforms of
\* the meshes downstream of the blendShape nodes of the namespace.
SIP_FindMeshWithBlendshapes(s, ns) ==
    SelectNames(s.blendMeshes,
                {m \in DOMAIN s.node : s.node[m].ns = ns}, <<>>)

\* Lines 459-500: one iteration of the loop over the characters.
CharacterStep(st, curCharacter, exportNode) ==
    Bind(SIP_FindMeshWithBlendshapes(st.s, curCharacter), LAMBDA meshes :
    Bind(SIP_ReturnOrigin(st.s, curCharacter), LAMBDA origin :
    Bind(SIP_ReturnFBXExportNodes(st.s, origin), LAMBDA found :
    Bind([st EXCEPT !.log = Append(@, Event("char", curCharacter, "", origin,
                                            0, 0, FALSE, "", <<>>))],
         LAMBDA st1 :
      IF exportNode = "" /\ found.none
      THEN [st1 EXCEPT !.err = "TypeError"]
      ELSE ExportNodesLoop(st1, curCharacter, origin, meshes,
                           IF exportNode # "" THEN <<exportNode>>
                           ELSE found.list)))))

RECURSIVE CharactersLoop(_, _, _)
CharactersLoop(st, characters, exportNode) ==
    IF characters = <<>> \/ st.err # "" THEN st
    ELSE Bind(CharacterStep(st, Head(characters), exportNode),
              LAMBDA st1 : CharactersLoop(st1, Tail(characters), exportNode))

\* cmds.file(reference=1, query=True) and the namespace of each reference.
ReferenceNamespaces(s) == [i \in 1..Len(s.refs) |-> s.refs[i].ns]

\* [s, disk, log, err] after SIP_ExportFBXAnimation(characterName, exportNode).
SIP_ExportFBXAnimation(s, d, characterName, exportNode) ==
    Bind(SIP_ClearGarbage(s), LAMBDA s0 :
      CharactersLoop([s |-> s0, disk |-> d, log |-> <<>>, err |-> ""],
                     IF characterName # "" THEN <<characterName>>
                     ELSE ReferenceNamespaces(s0),
                     exportNode))

\* What the host does where its answer is not fixed by the script: `selectNone`
\* is the outcome of cmds.select(None, add=True) and `reparent` the outcome of
\* cmds.parent(child, parent) on a node that is a child of that parent already
\* ("" for a call that returns, else the exception).
HostOutcomes ==
    [selectNone : {"", "TypeError"}, reparent : {"", "RuntimeError"}]

\* cmds.parent(origin, parentNode[0]) on lines 529-530.
parentBack(st, origin, parentNode, host) ==
    IF parentNode = "" THEN st
    ELSE IF st.s.node[origin].parent = parentNode
         THEN [st EXCEPT !.err = host.reparent]
         ELSE [st EXCEPT !.s.node[origin].parent = parentNode]

\* Lines 518-527: the export of one export node whose export flag is on.
CharacterExportBody(st, origin, cur, host) ==
    Bind(SIP_ReturnConnectedMeshes(st.s, cur), LAMBDA meshes :
      IF meshes.err # "" THEN [st EXCEPT !.err = meshes.err]
      ELSE IF meshes.none /\ host.selectNone # ""
      THEN [st EXCEPT !.s.selection = <<origin>>, !.err = host.selectNone]
      ELSE Bind([st.s EXCEPT !.selection = <<origin>> \o meshes.list],
                LAMBDA s1 :
           Bind(SIP_ExportFBX(s1, st.disk, st.log, "", origin, cur), LAMBDA r :
               [s |-> s1, disk |-> r.disk, log |-> r.log, err |-> r.err])))

\* Lines 516-530: one iteration of the loop of SIP_ExportFBXCharacter. The
\* origin is put back under its parent inside the test of the export flag.
CharacterNodeStep(st, origin, parentNode, cur, host) ==
    Bind([st EXCEPT !.log = Append(@, Event("node", "", cur, origin, 0, 0,
                                            FALSE, "", <<>>))], LAMBDA st1 :
      IF ~attrExists(st1.s, cur, "export")
      THEN [st1 EXCEPT !.err = "ValueError"]
      ELSE IF ~getAttr(st1.s, cur, "export") THEN st1
      ELSE Bind(CharacterExportBody(st1, origin, cur, host), LAMBDA st2 :
               IF st2.err # "" THEN st2
               ELSE parentBack(st2, origin, parentNode, host)))

RECURSIVE CharacterNodesLoop(_, _, _, _, _)
CharacterNodesLoop(st, origin, parentNode, exportNodes, host) ==
    IF exportNodes = <<>> \/ st.err # "" THEN st
    ELSE Bind(CharacterNodeStep(st, origin, parentNode, Head(exportNodes), host),
              LAMBDA st1 : CharacterNodesLoop(st1, origin, parentNode,
                                              Tail(exportNodes), host))

\* [s, disk, log, err] after SIP_ExportFBXCharacter(exportNode).
\* cmds.listRelatives("Error", parent=True) raises ValueError: no object has
\* that name. parentNode is "" where the script has None.
SIP_ExportFBXCharacter(s, d, exportNode, host) ==
    Bind(SIP_ReturnOrigin(s, ""), LAMBDA origin :
    Bind(SIP_ReturnFBXExportNodes(s, origin), LAMBDA found :
      IF ~objExists(s, origin)
      THEN [s |-> s, disk |-> d, log |-> <<>>, err |-> "ValueError"]
      ELSE Bind(s.node[origin].parent, LAMBDA parentNode :
           Bind(IF parentNode # "" THEN [s EXCEPT !.node[origin].parent = ""]
                ELSE s, LAMBDA s1 :
             IF exportNode = "" /\ found.none
             THEN [s |-> s1, disk |-> d, log |-> <<>>, err |-> "TypeError"]
             ELSE CharacterNodesLoop(
                      [s |-> s1, disk |-> d, log |-> <<>>, err |-> ""],
                      origin, parentNode,
                      IF exportNode # "" THEN <<exportNode>> ELSE found.list,
                      host)))))

\* ------------------------------------------------------------ model UI procs

\* The textScrollList is emptied; it then gets the origin SIP_ReturnOrigin("")
\* returns or, when that is "Error", every joint of the scene.
SIP_FBXExporterUI_PopulateModelRootJointsPanel(s, u) ==
    LET origin == SIP_ReturnOrigin(s, "")
    IN  IF origin # "Error"
        THEN [u EXCEPT !.modelsOrigin = <<origin>>]
        ELSE [u EXCEPT !.modelsOrigin = lsJoints(s, "")]

\* `sel` is the item selected in the list ("" when none is: selectItem is then
\* None and joints[0] raises TypeError).
SIP_FBXExporterUI_ModelTagForOrigin(s, u, sel) ==
    IF sel = "" THEN [s |-> s, ui |-> u, err |-> "TypeError"]
    ELSE LET s1 == SIP_TagForOrigin(s, sel)
         IN  [s |-> s1,
              ui |-> SIP_FBXExporterUI_PopulateModelRootJointsPanel(s1, u),
              err |-> ""]

\* -------------------------------------------------------- animation UI procs

RECURSIVE ActorsLoop_IgnoreDeferred(_, _, _)
\* ActorsLoop without the deferReference test of line 681.
ActorsLoop_IgnoreDeferred(s, references, acc) ==
    IF references = <<>> THEN acc
    ELSE ActorsLoop_IgnoreDeferred(s, Tail(references),
             IF SIP_ReturnOrigin(s, Head(references).ns) # "Error"
             THEN Append(acc, Head(references).ns) ELSE acc)

RECURSIVE ActorsLoop(_, _, _)
\* Lines 680-686: the namespace of each reference that is not deferred and
\* has an origin is appended.
ActorsLoop(s, references, acc) ==
    IF references = <<>> THEN acc
    ELSE ActorsLoop(s, Tail(references),
             IF /\ ~Head(references).deferred
                /\ SIP_ReturnOrigin(s, Head(references).ns) # "Error"
             THEN Append(acc, Head(references).ns) ELSE acc)

\* The actors textScrollList is emptied and filled again.
SIP_FBXExporterUI_PopulateAnimationActorPanel(s, u) ==
    [u EXCEPT !.animationActors = ActorsLoop(s, s.refs, <<>>)]

\* ------------------------------------------------------------------ scenes

Joint(ns, parent) == EmptyNode("joint", ns, parent)

\* A scene with two referenced characters, A and B, each a root joint with one
\* child joint; A has a mesh driven by a blendShape. Nothing is tagged.
BaseScene(minTime) ==
    [order |-> <<"A:root", "A:spine", "B:root", "B:spine", "A:body">>,
     node |-> ("A:root" :> Joint("A", "")) @@ ("A:spine" :> Joint("A", "A:root"))
              @@ ("B:root" :> Joint("B", "")) @@ ("B:spine" :> Joint("B", "B:root"))
              @@ ("A:body" :> EmptyNode("transform", "A", "")),
     xndConn |-> <<>>, xmsConn |-> <<>>, trConn |-> <<>>, selection |-> <<>>,
     blendMeshes |-> <<"A:body">>,
     refs |-> <<[ns |-> "A", deferred |-> FALSE], [ns |-> "B", deferred |-> FALSE]>>,
     minTime |-> minTime, maxTime |-> MaxFrame, workspace |-> "proj/"]

\* The origin attribute as a scene file may hold it: absent, true or false.
OriginStates == {"none", "true", "false"}

SetOrigin(s, n, v) ==
    IF v = "none" THEN s
    ELSE setAttr(s, n, "origin", v = "true")

RECURSIVE TagAll(_, _)
\* SIP_TagForGarbage on every node of a set.
TagAll(s, ns) ==
    IF ns = {} THEN s
    ELSE LET n == CHOOSE m \in ns : TRUE
         IN  TagAll(SIP_TagForGarbage(s, n), ns \ {n})

\* The settings of an export node, as the UI writes them with setAttr.
SetSettings(s, n, c) ==
    [s EXCEPT !.node[n].val = c @@ @]

Settings(export, motion, sub, name) ==
    [export |-> export, moveToOrigin |-> motion # "keep",
     zeroOrigin |-> motion = "zero", useSubRange |-> sub,
     startFrame |-> 1, endFrame |-> MaxFrame, exportName |-> name]

\* A new export node for `origin`, connected to it, with the given settings.
WithExportNode(s, origin, c) ==
    LET made == SIP_CreateFBXExportNode(s, origin)
    IN  SetSettings(SIP_ConnectFBXExportNodeToOrigin(made.s, made.ret, origin).s,
                    made.ret, c)

\* Scenes for the tagging, origin and garbage procedures: the three origin
\* states on the roots, garbage tags on a joint and its child, an anim layer.
TagScenes ==
    {TagAll(SetOrigin(SetOrigin(SetOrigin(
                createNode(BaseScene(0), "AnimLayer1", "animLayer", ""),
                "A:root", oa), "A:spine", os), "B:root", ob), g) :
        oa \in OriginStates, os \in {"none", "true"}, ob \in {"none", "true"},
        g \in SUBSET {"A:root", "A:spine"}}

\* Scenes for the export procedures: character A with a first export node of
\* any settings and a second export node, on A or on B, that is exported.
ExportScenes ==
    {WithExportNode(
         WithExportNode(
             SetOrigin(SetOrigin(BaseScene(0), "A:root", oa), "B:root", "true"),
             "A:root", Settings(e1, m1, u1, n1)),
         o2, Settings(TRUE, "keep", FALSE, "idle.fbx")) :
        oa \in {"none", "true"}, e1 \in BOOLEAN,
        m1 \in {"keep", "shift", "zero"}, u1 \in BOOLEAN,
        n1 \in {"", "run.fbx"}, o2 \in {"A:root", "B:root"}}

\* Scenes for the export node procedures: a new export node, not yet
\* connected, and a plain transform (A:body).
ConnectScenes ==
    {SIP_CreateFBXExportNode(
         SetOrigin(SetOrigin(BaseScene(0), "A:root", oa), "B:root", ob),
         "A:root").s :
        oa \in {"none", "true"}, ob \in {"none", "true"}}

\* A scene for the model export procedures: a second mesh (A:hair), a third
\* reference whose namespace holds no joint, reference B deferred or loaded.
ModelBase(deferB) ==
    [createNode(BaseScene(0), "A:hair", "transform", "A")
        EXCEPT !.refs = <<[ns |-> "A", deferred |-> FALSE],
                          [ns |-> "B", deferred |-> deferB],
                          [ns |-> "C", deferred |-> FALSE]>>]

\* The origin tags of a model scene: joint o of character A ("" for none),
\* and B:root as `b` says.
ModelTagged(o, b) ==
    LET s == SetOrigin(ModelBase(b = "deferred"), "B:root",
                       IF b = "none" THEN "none" ELSE "true")
    IN  IF o = "" THEN s ELSE SetOrigin(s, o, "true")

\* Scenes for the model export procedures: the origin of A is the root joint
\* or a joint with a parent; it has no export node, or two of them with any
\* export flags, the first with or without a mesh connected.
ModelScenes ==
    {ModelTagged(o, b) : o \in {"", "A:root", "A:spine"},
                         b \in {"none", "loaded", "deferred"}}
    \cup
    {SIP_ConnectFBXExportNodeToMeshes(
         WithExportNode(
             WithExportNode(ModelTagged(o, b), o,
                            Settings(e1, "keep", FALSE, "body.fbx")),
             o, Settings(e2, "keep", FALSE, "hair.fbx")),
         o \o "FBXExportNode1", m) :
        o \in {"A:root", "A:spine"}, b \in {"none", "loaded", "deferred"},
        e1 \in BOOLEAN, e2 \in BOOLEAN, m \in {<<>>, <<"A:body">>}}

\* cmds.animLayer(layer, edit=True, mute=m, solo=o)
editAnimLayer(s, layer, m, o) ==
    setAttr(setAttr(s, layer, "mute", m), layer, "solo", o)

\* Scenes for the animLayers procedures: character A with an origin and an
\* export node, two anim layers with any mute values and, on the first, any
\* solo value; the animLayers attribute of the export node is empty or holds
\* entries in the format of line 374 for one layer or for both.
LayerScenes ==
    {setAttr(
         editAnimLayer(
             editAnimLayer(
                 animLayer(
                     animLayer(
                         WithExportNode(SetOrigin(BaseScene(0), "A:root", "true"),
                                        "A:root",
                                        Settings(TRUE, "keep", FALSE, "run.fbx")),
                         "AnimLayer1", FALSE, FALSE),
                     "AnimLayer2", FALSE, FALSE),
                 "AnimLayer1", m1, o1),
             "AnimLayer2", m2, FALSE),
         "A:rootFBXExportNode1", "animLayers", text) :
        m1 \in BOOLEAN, o1 \in BOOLEAN, m2 \in BOOLEAN,
        text \in {"", LayerEntry("AnimLayer1", TRUE, FALSE),
                  LayerEntry("AnimLayer1", FALSE, TRUE)
                      \o LayerEntry("AnimLayer2", TRUE, FALSE)}}

\* --------------------------------------------------------------- behaviour

\* The textScrollLists of the window, empty.
NoLists == [modelsOrigin |-> <<>>, animationActors |-> <<>>]

NoCall(s) ==
    [op |-> "none", a |-> "", b |-> "", pre |-> s, preDisk |-> {},
     preUi |-> NoLists, ret |-> "", rets |-> <<>>,
     err |-> "", log |-> <<>>, meshes |-> <<>>]

InitWith(scenes) ==
    /\ scene \in scenes
    /\ disk = {}
    /\ ui = NoLists
    /\ last = NoCall(scene)
    /\ calls = 0

\* One call of a procedure: the state after it and the record of the call.
\* A behaviour makes at most MaxCalls calls.
Call(op, a, b, s, d, u, ret, rets, err, log) ==
    /\ calls' = calls + 1
    /\ scene' = s
    /\ disk' = d
    /\ ui' = u
    /\ last' = [op |-> op, a |-> a, b |-> b, pre |-> scene, preDisk |-> disk,
                preUi |-> ui, ret |-> ret, rets |-> rets, err |-> err,
                log |-> log, meshes |-> <<>>]

\* One call of a procedure that takes an export node and a list of meshes.
CallMeshes(op, exportNode, meshes, s, rets, err) ==
    /\ calls' = calls + 1
    /\ scene' = s
    /\ UNCHANGED <<disk, ui>>
    /\ last' = [op |-> op, a |-> exportNode, b |-> "", pre |-> scene,
                preDisk |-> disk, preUi |-> ui, ret |-> "", rets |-> rets,
                err |-> err, log |-> <<>>, meshes |-> meshes]

\* Node names a caller may pass: the nodes of the scene and a name of no node.
NodeArgs == DOMAIN scene.node \cup {"ghost"}

\* Namespaces a caller may pass: the empty one, A, B and one without nodes.
NamespaceArgs == {"", "A", "B", "C"}

TagForOrigin ==
    /\ calls < MaxCalls
    /\ \E node \in NodeArgs :
           Call("SIP_TagForOrigin", node, "", SIP_TagForOrigin(scene, node),
                disk, ui, "", <<>>, "", <<>>)

TagForGarbage ==
    /\ calls < MaxCalls
    /\ \E node \in NodeArgs :
           Call("SIP_TagForGarbage", node, "", SIP_TagForGarbage(scene, node),
                disk, ui, "", <<>>, "", <<>>)

ReturnOrigin ==
    /\ calls < MaxCalls
    /\ \E ns \in NamespaceArgs :
           Call("SIP_ReturnOrigin", ns, "", scene, disk, ui,
                SIP_ReturnOrigin(scene, ns), <<>>, "", <<>>)

ClearGarbage ==
    /\ calls < MaxCalls
    /\ Call("SIP_ClearGarbage", "", "", SIP_ClearGarbage(scene), disk, ui,
            "", <<>>, "", <<>>)

PopulateModelRootJointsPanel ==
    /\ calls < MaxCalls
    /\ Call("SIP_FBXExporterUI_PopulateModelRootJointsPanel", "", "", scene, disk,
            SIP_FBXExporterUI_PopulateModelRootJointsPanel(scene, ui),
            "", <<>>, "", <<>>)

ModelTagForOrigin ==
    /\ calls < MaxCalls
    /\ \E sel \in Range(ui.modelsOrigin) \cup {""} :
           LET r == SIP_FBXExporterUI_ModelTagForOrigin(scene, ui, sel)
           IN  Call("SIP_FBXExporterUI_ModelTagForOrigin", sel, "", r.s, disk,
                    r.ui, "", <<>>, r.err, <<>>)

InitTag == InitWith(TagScenes)

NextTag ==
    \/ TagForOrigin
    \/ TagForGarbage
    \/ ReturnOrigin
    \/ ClearGarbage
    \/ PopulateModelRootJointsPanel
    \/ ModelTagForOrigin

\* The tagging, origin, garbage and root joint panel procedures.
SpecTag == InitTag /\ [][NextTag]_vars

\* Names of joints and names of other nodes, with a name of no node.
JointArgs == {n \in NodeArgs : n \in DOMAIN scene.node => scene.node[n].type = "joint"}

OtherArgs == {n \in NodeArgs : n \in DOMAIN scene.node => scene.node[n].type # "joint"}

\* A caller passes a joint as origin and another node as export node.
ConnectFBXExportNodeToOrigin ==
    /\ calls < MaxCalls
    /\ \E exportNode \in OtherArgs, origin \in JointArgs :
           \E r \in {SIP_ConnectFBXExportNodeToOrigin(scene, exportNode, origin)} :
               Call("SIP_ConnectFBXExportNodeToOrigin", exportNode, origin, r.s,
                    disk, ui, "", <<>>, r.err, <<>>)

ReturnFBXExportNodes ==
    /\ calls < MaxCalls
    /\ \E origin \in NodeArgs \cup {"Error"} :
           LET r == SIP_ReturnFBXExportNodes(scene, origin)
           IN  Call("SIP_ReturnFBXExportNodes", origin, "", scene, disk, ui,
                    IF r.none THEN "None" ELSE "", r.list, "", <<>>)

TagForExportNode ==
    /\ calls < MaxCalls
    /\ \E node \in NodeArgs :
           Call("SIP_TagForExportNode", node, "", SIP_TagForExportNode(scene, node),
                disk, ui, "", <<>>, "", <<>>)

\* The origin panel passes the selected joint as the character name.
CreateFBXExportNode ==
    /\ calls < MaxCalls
    /\ \E characterName \in {"A:root", "B:root"} :
           LET r == SIP_CreateFBXExportNode(scene, characterName)
           IN  Call("SIP_CreateFBXExportNode", characterName, "", r.s, disk, ui,
                    r.ret, <<>>, "", <<>>)

\* The nodes that hold export settings.
ExportNodes(s) == {n \in DOMAIN s.node : "export" \in DOMAIN s.node[n].val}

DeleteFBXExportNode ==
    /\ calls < MaxCalls
    /\ \E exportNode \in ExportNodes(scene) \cup {"ghost"} :
           Call("SIP_DeleteFBXExportNode", exportNode, "",
                SIP_DeleteFBXExportNode(scene, exportNode), disk, ui,
                "", <<>>, "", <<>>)

InitConnect == InitWith(ConnectScenes)

NextConnect ==
    \/ ConnectFBXExportNodeToOrigin
    \/ ReturnFBXExportNodes
    \/ TagForExportNode
    \/ CreateFBXExportNode
    \/ DeleteFBXExportNode

\* The export node procedures.
SpecConnect == InitConnect /\ [][NextConnect]_vars

\* The export node arrives with the selection the caller made.
ExportFBX ==
    /\ calls < MaxCalls
    /\ \E exportNode \in ExportNodes(scene), sel \in {<<"A:root", "A:body">>} :
           \E s \in {[scene EXCEPT !.selection = sel]} :
               \E r \in {SIP_ExportFBX(s, disk, <<>>, "", "", exportNode)} :
                   Call("SIP_ExportFBX", exportNode, "", s, r.disk, ui, "", <<>>,
                        r.err, r.log)

\* The UI passes the selected actor and the selected export node, or "" for
\* all of them.
ExportFBXAnimation ==
    /\ calls < MaxCalls
    /\ \E characterName \in {"", "A", "B"}, exportNode \in ExportNodes(scene) \cup {""} :
           \E r \in {SIP_ExportFBXAnimation(scene, disk, characterName, exportNode)} :
               Call("SIP_ExportFBXAnimation", characterName, exportNode, r.s,
                    r.disk, ui, "", <<>>, r.err, r.log)

InitExport == InitWith(ExportScenes)

NextExport ==
    \/ ExportFBX
    \/ ExportFBXAnimation
    \/ DeleteFBXExportNode

\* The export procedures.
SpecExport == InitExport /\ [][NextExport]_vars

\* The names a caller may pass as meshes: the transforms that hold no export
\* settings, and a name of no node.
MeshNames ==
    <<"ghost">> \o
    SelectNames(scene.order,
                {n \in DOMAIN scene.node : /\ scene.node[n].type = "transform"
                                           /\ n \notin ExportNodes(scene)},
                <<>>)

RECURSIVE ListsOf(_)
\* The lists of names of seq, without repetition and in the order of seq: the
\* callers pass the host's selection list or the selected items of a
\* textScrollList.
ListsOf(seq) ==
    IF seq = <<>> THEN {<<>>}
    ELSE LET rest == ListsOf(Tail(seq))
         IN  rest \cup {<<Head(seq)>> \o l : l \in rest}

ConnectFBXExportNodeToMeshes ==
    /\ calls < MaxCalls
    /\ \E exportNode \in ExportNodes(scene) \cup {"ghost"},
          meshes \in ListsOf(MeshNames) :
           CallMeshes("SIP_ConnectFBXExportNodeToMeshes", exportNode, meshes,
                      SIP_ConnectFBXExportNodeToMeshes(scene, exportNode, meshes),
                      <<>>, "")

DisconnectFBXExporterNodeToMeshes ==
    /\ calls < MaxCalls
    /\ \E exportNode \in ExportNodes(scene) \cup {"ghost"},
          meshes \in ListsOf(MeshNames) :
           \E r \in {SIP_DisconnectFBXExporterNodeToMeshes(scene, exportNode,
                                                           meshes)} :
               CallMeshes("SIP_DisconnectFBXExporterNodeToMeshes", exportNode,
                          meshes, r.s, <<>>, r.err)

ReturnConnectedMeshes ==
    /\ calls < MaxCalls
    /\ \E exportNode \in ExportNodes(scene) \cup {"ghost"} :
           \E r \in {SIP_ReturnConnectedMeshes(scene, exportNode)} :
               CallMeshes("SIP_ReturnConnectedMeshes", exportNode, <<>>, scene,
                          r.list, r.err)

\* The UI passes the selected export node, or "" for all of them.
ExportFBXCharacter ==
    /\ calls < MaxCalls
    /\ \E exportNode \in ExportNodes(scene) \cup {""}, host \in HostOutcomes :
           \E r \in {SIP_ExportFBXCharacter(scene, disk, exportNode, host)} :
               Call("SIP_ExportFBXCharacter", exportNode, "", r.s, r.disk, ui,
                    "", <<>>, r.err, r.log)

PopulateAnimationActorPanel ==
    /\ calls < MaxCalls
    /\ Call("SIP_FBXExporterUI_PopulateAnimationActorPanel", "", "", scene, disk,
            SIP_FBXExporterUI_PopulateAnimationActorPanel(scene, ui),
            "", <<>>, "", <<>>)

InitModel == InitWith(ModelScenes)

NextModel ==
    \/ ConnectFBXExportNodeToMeshes
    \/ DisconnectFBXExporterNodeToMeshes
    \/ ReturnConnectedMeshes
    \/ ExportFBXCharacter
    \/ PopulateAnimationActorPanel

\* The model export procedures and the actors panel.
SpecModel == InitModel /\ [][NextModel]_vars

\* A caller passes an export node, a node without export settings or a name
\* of no node.
SetAnimLayerSettings ==
    /\ calls < MaxCalls
    /\ \E exportNode \in ExportNodes(scene) \cup {"A:body", "ghost"} :
           \E r \in {SIP_SetAnimLayerSettings(scene, exportNode)} :
               Call("SIP_SetAnimLayerSettings", exportNode, "", r.s, disk, ui,
                    "", <<>>, r.err, <<>>)

SetAnimLayersFromSettings ==
    /\ calls < MaxCalls
    /\ \E exportNode \in ExportNodes(scene) \cup {"A:body", "ghost"} :
           \E r \in {SIP_SetAnimLayersFromSettings(scene, exportNode)} :
               Call("SIP_SetAnimLayersFromSettings", exportNode, "", r.s, disk,
                    ui, "", <<>>, r.err, <<>>)

\* The origin is valid and the end frame is greater than the start frame (the
\* PRESUMPTION of line 318); the arguments are kept in an Event of the record.
TransformToOrigin ==
    /\ calls < MaxCalls
    /\ \E origin \in {"A:root", "B:root"}, startFrame \in 0..(MaxFrame - 1),
          zeroOrigin \in BOOLEAN :
           Call("SIP_TransformToOrigin", origin, "",
                SIP_TransformToOrigin(scene, origin, startFrame, MaxFrame,
                                      zeroOrigin),
                disk, ui, "", <<>>, "",
                <<Event("transform", "", "", origin, startFrame, MaxFrame,
                        zeroOrigin, "", <<>>)>>)

InitLayers == InitWith(LayerScenes)

NextLayers ==
    \/ SetAnimLayerSettings
    \/ SetAnimLayersFromSettings
    \/ TransformToOrigin

\* The animLayers procedures and SIP_TransformToOrigin.
SpecLayers == InitLayers /\ [][NextLayers]_vars

TagForMeshExport ==
    /\ calls < MaxCalls
    /\ \E mesh \in NodeArgs :
           Call("SIP_TagForMeshExport", mesh, "", SIP_TagForMeshExport(scene, mesh),
                disk, ui, "", <<>>, "", <<>>)

NextTagging ==
    \/ TagForOrigin
    \/ TagForMeshExport
    \/ TagForExportNode
    \/ TagForGarbage

\* The four tagging procedures.
SpecTagging == InitTag /\ [][NextTagging]_vars

Init == InitTag \/ InitConnect \/ InitExport \/ InitModel \/ InitLayers

Next ==
    NextTag \/ NextConnect \/ NextExport \/ NextModel \/ NextLayers
        \/ NextTagging

\* Every procedure on every scene.
Spec == Init /\ [][Next]_vars

\* ------------------------------------------- properties of the tagging procs

\* The place of x in the sequence seq.
Pos(seq, x) == CHOOSE i \in DOMAIN seq : seq[i] = x

\* The joints of scene s that carry the origin attribute set to true, in
\* namespace ns when ns is not empty.
OriginJoints(s, ns) ==
    {j \in DOMAIN s.node : /\ s.node[j].type = "joint"
                           /\ "origin" \in DOMAIN s.node[j].val
                           /\ s.node[j].val["origin"]
                           /\ (ns # "" => s.node[j].ns = ns)}

\* The nodes of scene s that carry the deleteMe attribute.
Garbage(s) == {n \in DOMAIN s.node : "deleteMe" \in DOMAIN s.node[n].val}

\* C4 (as stated): after SIP_FBXExporterUI_PopulateModelRootJointsPanel the
\* root joints list holds all the joints tagged with the origin attribute, or
\* every joint of the scene when none is tagged, and nothing else.
C4_ListHoldsAllOrigins ==
    last.op = "SIP_FBXExporterUI_PopulateModelRootJointsPanel" =>
        Range(ui.modelsOrigin) =
            (IF OriginJoints(scene, "") # {} THEN OriginJoints(scene, "")
             ELSE {j \in DOMAIN scene.node : scene.node[j].type = "joint"})

\* C6 (as stated): after SIP_ClearGarbage no node of the scene has the
\* deleteMe attribute, whatever its type, and every node that had no deleteMe
\* attribute and no tagged ancestor still exists.
C6_NoGarbageLeft ==
    last.op = "SIP_ClearGarbage" =>
        /\ Garbage(scene) = {}
        /\ \A n \in DOMAIN last.pre.node :
              (/\ n \notin Garbage(last.pre)
               /\ Ancestors(last.pre, n) \cap Garbage(last.pre) = {})
                  => n \in DOMAIN scene.node

\* C8: SIP_ReturnOrigin(ns) returns the first joint, in listing order, that
\* has the origin attribute set to true (of namespace ns when ns is not
\* empty), returns "Error" exactly when there is no such joint, and leaves the
\* scene as it was.
C8_ReturnOriginContract ==
    last.op = "SIP_ReturnOrigin" =>
        LET cands == OriginJoints(last.pre, last.a)
        IN  /\ (last.ret = "Error") <=> (cands = {})
            /\ last.ret # "Error" =>
                  /\ last.ret \in cands
                  /\ \A j \in cands :
                        Pos(last.pre.order, last.ret) <= Pos(last.pre.order, j)
            /\ scene = last.pre

\* C8's case: the origin of namespace B is returned although an earlier joint,
\* of namespace A, is an origin too.
C8_Witness ==
    /\ last.op = "SIP_ReturnOrigin"
    /\ last.a = "B"
    /\ last.ret = "B:root"
    /\ OriginJoints(last.pre, "A") # {}

\* C9 (as stated): after SIP_TagForOrigin on an existing node, the node has
\* an origin attribute whose value is true.
C9_OriginTrueAfterTag ==
    (last.op = "SIP_TagForOrigin" /\ last.a \in DOMAIN last.pre.node) =>
        /\ "origin" \in DOMAIN scene.node[last.a].val
        /\ scene.node[last.a].val["origin"]

\* C9 (amended): after SIP_TagForOrigin on an existing node, the node has an
\* origin attribute; its value is true when the node had no origin attribute
\* before the call (a joint is then an origin SIP_ReturnOrigin can return),
\* and it is the value the attribute already had otherwise, the scene being
\* unchanged.
C9_OriginTrueWhenAdded ==
    (last.op = "SIP_TagForOrigin" /\ last.a \in DOMAIN last.pre.node) =>
        /\ "origin" \in DOMAIN scene.node[last.a].val
        /\ "origin" \notin DOMAIN last.pre.node[last.a].val =>
              /\ scene.node[last.a].val["origin"]
              /\ scene.node[last.a].type = "joint" =>
                    last.a \in OriginJoints(scene, scene.node[last.a].ns)
              /\ (scene.node[last.a].type = "joint"
                  /\ OriginJoints(last.pre, "") = {}) =>
                    SIP_ReturnOrigin(scene, "") = last.a
        /\ "origin" \in DOMAIN last.pre.node[last.a].val => scene = last.pre

\* C9's case: a joint without the origin attribute has been tagged.
C9_Witness ==
    /\ last.op = "SIP_TagForOrigin"
    /\ last.a \in DOMAIN last.pre.node
    /\ last.pre.node[last.a].type = "joint"
    /\ "origin" \notin DOMAIN last.pre.node[last.a].val
    /\ SIP_ReturnOrigin(scene, "") = last.a

\* -------------------------------------------- properties of the export procs

\* The entries of kind k in the record of the last call.
Events(k) == {i \in DOMAIN last.log : last.log[i].kind = k}

\* The export flag the node had when the last call began.
ExportFlag(n) ==
    /\ n \in DOMAIN last.pre.node
    /\ "export" \in DOMAIN last.pre.node[n].val
    /\ last.pre.node[n].val["export"]

\* C1: SIP_ExportFBXAnimation writes a file for an export node only if the
\* node's export attribute is true and the character has an origin; for an
\* export node whose export flag is off no skeleton is duplicated and no file
\* is written.
C1_ExportsOnlyFlaggedNodes ==
    last.op = "SIP_ExportFBXAnimation" =>
        /\ \A i \in Events("file") :
              /\ ExportFlag(last.log[i].node)
              /\ OriginJoints(last.pre, last.log[i].char) # {}
        /\ \A i \in Events("node") :
              ~ExportFlag(last.log[i].node) =>
                  \A j \in Events("dup") \cup Events("file") :
                      last.log[j].node # last.log[i].node
        /\ disk \ last.preDisk \subseteq
              {last.log[i].path : i \in Events("file")}

\* C1's case: one call met an export node whose flag is off and wrote the
\* file of another one.
C1_Witness ==
    /\ last.op = "SIP_ExportFBXAnimation"
    /\ \E i \in Events("node") : ~ExportFlag(last.log[i].node)
    /\ Events("file") # {}
    /\ disk # last.preDisk

\* C2 (as stated): the frame range SIP_ExportFBXAnimation passes to
\* SIP_TransformToOrigin and to SIP_SetFBXExportOptions_animation is
\* (startFrame, endFrame) of the export node when its useSubRange is true, and
\* (playback minimum, playback maximum) otherwise.
C2_RangeIsSubRangeOrPlayback ==
    last.op = "SIP_ExportFBXAnimation" =>
        \A i \in Events("options") \cup Events("transform") :
            LET e == last.log[i]
                v == last.pre.node[e.node].val
            IN  IF v["useSubRange"]
                THEN e.startFrame = v["startFrame"] /\ e.endFrame = v["endFrame"]
                ELSE /\ e.startFrame = last.pre.minTime
                     /\ e.endFrame = last.pre.maxTime

\* The number of loop iterations the last call began for export node n of
\* character c.
Iterations(c, n) ==
    Cardinality({i \in Events("node") :
                    last.log[i].char = c /\ last.log[i].node = n})

\* C3 (as stated): SIP_ExportFBXAnimation processes the given character, or
\* the namespace of every file reference when characterName is empty, and for
\* each of them the given export node, or every export node connected to the
\* origin of the character, each exactly once, when exportNode is empty.
C3_ProcessesEveryCharacterAndNode ==
    last.op = "SIP_ExportFBXAnimation" =>
        /\ {last.log[i].char : i \in Events("char")} =
              (IF last.a # "" THEN {last.a}
               ELSE Range(ReferenceNamespaces(last.pre)))
        /\ \A i \in Events("char") :
              \A n \in DOMAIN last.pre.node :
                  Iterations(last.log[i].char, n) =
                      IF last.b # ""
                      THEN (IF n = last.b THEN 1 ELSE 0)
                      ELSE (IF <<last.log[i].origin, n>> \in Range(last.pre.xndConn)
                            THEN 1 ELSE 0)

\* C5 (as stated): in the state after SIP_ExportFBXAnimation has returned, no
\* node carries the deleteMe attribute.
C5_NoGarbageAfterExport ==
    (last.op = "SIP_ExportFBXAnimation" /\ last.err = "") =>
        Garbage(scene) = {}

\* The export name of node n when the last call began.
ExportName(n) == last.pre.node[n].val["exportName"]

\* C7: SIP_ExportFBX writes a file exactly when the export name is not empty,
\* at the workspace root directory followed by the export name; with an empty
\* export name it warns, writes nothing and returns, and the loop of
\* SIP_ExportFBXAnimation goes on (the warning is never where a call ends
\* with an exception).
C7_FileIffExportName ==
    /\ last.op = "SIP_ExportFBX" =>
          /\ (Events("file") # {}) <=> (ExportName(last.a) # "")
          /\ ExportName(last.a) # "" =>
                /\ Len(last.log) = 1
                /\ last.log[1].path = last.pre.workspace \o ExportName(last.a)
                /\ disk = last.preDisk \cup {last.log[1].path}
          /\ ExportName(last.a) = "" =>
                /\ Len(last.log) = 1
                /\ last.log[1].kind = "warn"
                /\ disk = last.preDisk
                /\ last.err = ""
    /\ last.op = "SIP_ExportFBXAnimation" =>
          /\ \A i \in Events("file") :
                /\ ExportName(last.log[i].node) # ""
                /\ last.log[i].path =
                      last.pre.workspace \o ExportName(last.log[i].node)
                /\ last.log[i].path \in disk
          /\ \A i \in Events("warn") :
                /\ ExportName(last.log[i].node) = ""
                /\ last.err = "" \/ i < Len(last.log)

\* C7's case: one call of SIP_ExportFBXAnimation warned about an export node
\* without export name and then wrote the file of the next export node.
C7_Witness ==
    /\ last.op = "SIP_ExportFBXAnimation"
    /\ \E i \in Events("warn") : \E j \in Events("file") : i < j

\* ---------------------------------------- properties of the export node procs

\* C10 (as stated): for an existing origin and an existing export node,
\* SIP_ConnectFBXExportNodeToOrigin completes without error, both nodes have
\* the exportNode attribute, origin.exportNode is connected to
\* exportNode.exportNode and SIP_ReturnFBXExportNodes(origin) contains the
\* export node; if either node does not exist the scene is unchanged.
C10_ConnectsExistingNodes ==
    last.op = "SIP_ConnectFBXExportNodeToOrigin" =>
        IF last.a \in DOMAIN last.pre.node /\ last.b \in DOMAIN last.pre.node
        THEN /\ last.err = ""
             /\ "exportNode" \in DOMAIN scene.node[last.a].val
             /\ "exportNode" \in DOMAIN scene.node[last.b].val
             /\ <<last.b, last.a>> \in Range(scene.xndConn)
             /\ last.a \in Range(SIP_ReturnFBXExportNodes(scene, last.b).list)
        ELSE scene = last.pre

\* ---------------------------------------- properties of the model export procs

\* The meshes the exportMeshes attribute of export node n is connected to.
ConnectedTo(s, n) == {c[2] : c \in {d \in Range(s.xmsConn) : d[1] = n}}

AnimLayers(s) == lsType(s, "animLayer").list

\* The mute and solo values of every anim layer of scene s.
LayerStates(s) ==
    [l \in Range(AnimLayers(s)) |->
        <<s.node[l].val["mute"], s.node[l].val["solo"]>>]

\* C13 (as stated): after SIP_SetAnimLayerSettings on an existing export node,
\* the animLayers attribute of the node holds one entry per anim layer of the
\* scene: the layer name, its mute value and its solo value, with "," between
\* the fields, "=" between attribute and value, and ";" at the end.
C13_RecordsLayerSettings ==
    (last.op = "SIP_SetAnimLayerSettings" /\ last.a \in DOMAIN last.pre.node) =>
        /\ last.err = ""
        /\ "animLayers" \in DOMAIN scene.node[last.a].val
        /\ scene.node[last.a].val["animLayers"] =
              LayerString(last.pre, AnimLayers(last.pre), "")

\* The settings an animLayers string may hold: lists of one or two entries,
\* each the name of an anim layer of s with a mute and a solo value, no layer
\* named twice.
SettingsLists(s) ==
    LET entries == [name : Range(AnimLayers(s)), mute : BOOLEAN, solo : BOOLEAN]
    IN  {<<e>> : e \in entries}
        \cup {p \in entries \X entries : p[1].name # p[2].name}

RECURSIVE SettingsString(_)
\* The string of a list of settings, in the format of line 374.
SettingsString(list) ==
    IF list = <<>> THEN ""
    ELSE LayerEntry(Head(list).name, Head(list).mute, Head(list).solo)
             \o SettingsString(Tail(list))

\* C14 (as stated): after SIP_SetAnimLayersFromSettings on an existing export
\* node whose animLayers string is not empty, every layer named in an entry of
\* the string has the mute and solo values of that entry, and the layers the
\* string does not name are as they were.
C14_AppliesLayerSettings ==
    (/\ last.op = "SIP_SetAnimLayersFromSettings"
     /\ last.a \in DOMAIN last.pre.node
     /\ "animLayers" \in DOMAIN last.pre.node[last.a].val
     /\ last.pre.node[last.a].val["animLayers"] # "") =>
        /\ last.err = ""
        /\ \A list \in SettingsLists(last.pre) :
              SettingsString(list) = last.pre.node[last.a].val["animLayers"] =>
                  /\ \A i \in DOMAIN list :
                        LayerStates(scene)[list[i].name] =
                            <<list[i].mute, list[i].solo>>
                  /\ \A l \in Range(AnimLayers(scene)) :
                        l \notin {list[i].name : i \in DOMAIN list} =>
                            LayerStates(scene)[l] = LayerStates(last.pre)[l]

\* The scenes that differ from s in the mute and solo values of anim layers
\* only.
LayerChanges(s) ==
    {[s EXCEPT !.node =
         [n \in DOMAIN s.node |->
             IF n \in DOMAIN f
             THEN [s.node[n] EXCEPT !.val = [mute |-> f[n][1], solo |-> f[n][2]] @@ @]
             ELSE s.node[n]]] :
        f \in [Range(AnimLayers(s)) -> BOOLEAN \X BOOLEAN]}

\* C18 (as stated): where SIP_SetAnimLayerSettings has just been called on an
\* existing export node, whatever the mute and solo values of the layers are
\* changed to, SIP_SetAnimLayersFromSettings on the same export node completes
\* and gives every anim layer the mute and solo values it had when the
\* settings were recorded.
C18_SettingsRoundTrip ==
    (last.op = "SIP_SetAnimLayerSettings" /\ last.a \in DOMAIN last.pre.node) =>
        \A changed \in LayerChanges(scene) :
            LET r == SIP_SetAnimLayersFromSettings(changed, last.a)
            IN  /\ r.err = ""
                /\ LayerStates(r.s) = LayerStates(last.pre)

SceneOrigin == SIP_ReturnOrigin(last.pre, "")

\* The export nodes the last call of SIP_ExportFBXCharacter had to process.
Processed ==
    IF last.a # "" THEN {last.a}
    ELSE {c[2] : c \in {d \in Range(last.pre.xndConn) : d[1] = SceneOrigin}}

\* C15 (as stated): SIP_ExportFBXCharacter, in a scene with an origin, hands
\* to SIP_ExportFBX exactly the processed export nodes whose export attribute
\* is true, each with a selection that is the origin and the meshes connected
\* to the export node.
C15_ExportsFlaggedNodesWithMeshes ==
    (last.op = "SIP_ExportFBXCharacter" /\ SceneOrigin # "Error") =>
        /\ {last.log[i].node : i \in Events("file")} =
              {n \in Processed : ExportFlag(n)}
        /\ \A i \in Events("file") :
              /\ Range(last.log[i].sel) =
                    {SceneOrigin} \cup ConnectedTo(last.pre, last.log[i].node)
              /\ Len(last.log[i].sel) = Cardinality(Range(last.log[i].sel))

\* C17 (as stated): when SIP_ExportFBXCharacter returns, an origin that had a
\* parent is a child of that parent.
C17_OriginKeepsParent ==
    (/\ last.op = "SIP_ExportFBXCharacter"
     /\ SceneOrigin # "Error"
     /\ last.err = "") =>
        scene.node[SceneOrigin].parent = last.pre.node[SceneOrigin].parent

\* ------------------------------------------- properties of the actors panel

\* C16: after SIP_FBXExporterUI_PopulateAnimationActorPanel the actors list
\* holds, once each, the namespaces of the references that are not deferred
\* and in which SIP_ReturnOrigin finds an origin, and nothing else.
C16_ActorsAreLoadedCharactersWithOrigin ==
    last.op = "SIP_FBXExporterUI_PopulateAnimationActorPanel" =>
        /\ Range(ui.animationActors) =
              {r.ns : r \in {q \in Range(scene.refs) :
                                /\ ~q.deferred
                                /\ OriginJoints(scene, q.ns) # {}}}
        /\ Len(ui.animationActors) = Cardinality(Range(ui.animationActors))
        /\ ui.modelsOrigin = last.preUi.modelsOrigin
        /\ scene = last.pre

\* C16's case: the list was not empty before the call, one reference is
\* deferred although its namespace has an origin, another one is listed.
C16_Witness ==
    /\ last.op = "SIP_FBXExporterUI_PopulateAnimationActorPanel"
    /\ last.preUi.animationActors # <<>>
    /\ ui.animationActors # <<>>
    /\ \E r \in Range(scene.refs) :
          r.deferred /\ OriginJoints(scene, r.ns) # {}

\* ------------------------------------ properties of the four tagging procs

\* The tagging procedures and the attribute each of them adds.
TagAttr ==
    [SIP_TagForOrigin |-> "origin", SIP_TagForMeshExport |-> "exportMeshes",
     SIP_TagForExportNode |-> "exportNode", SIP_TagForGarbage |-> "deleteMe"]

\* The scene after tagging procedure op on node n of scene s.
Tagged(op, s, n) ==
    CASE op = "SIP_TagForOrigin" -> SIP_TagForOrigin(s, n)
      [] op = "SIP_TagForMeshExport" -> SIP_TagForMeshExport(s, n)
      [] op = "SIP_TagForExportNode" -> SIP_TagForExportNode(s, n)
      [] op = "SIP_TagForGarbage" -> SIP_TagForGarbage(s, n)

\* C20: a tagging procedure leaves the scene unchanged when the node does not
\* exist or already has the attribute; when the node exists and lacks the
\* attribute it changes that node only, which then has the attribute; and
\* applying the procedure once more gives the same scene.
C20_TaggingChangesOnceOnly ==
    last.op \in DOMAIN TagAttr =>
        /\ (\/ last.a \notin DOMAIN last.pre.node
            \/ TagAttr[last.op] \in DOMAIN last.pre.node[last.a].val)
              => scene = last.pre
        /\ scene # last.pre =>
              /\ last.a \in DOMAIN last.pre.node
              /\ TagAttr[last.op] \notin DOMAIN last.pre.node[last.a].val
              /\ TagAttr[last.op] \in DOMAIN scene.node[last.a].val
              /\ scene = [last.pre EXCEPT !.node[last.a] = scene.node[last.a]]
        /\ Tagged(last.op, scene, last.a) = scene

\* C20's case: a node that has the origin attribute set to false was passed
\* to SIP_TagForOrigin, after a call that tagged a node lacking its attribute.
C20_Witness ==
    /\ last.op = "SIP_TagForOrigin"
    /\ last.a \in DOMAIN last.pre.node
    /\ "origin" \in DOMAIN last.pre.node[last.a].val
    /\ ~last.pre.node[last.a].val["origin"]
    /\ \E n \in DOMAIN scene.node : \E a \in {"exportMeshes", "exportNode"} :
          a \in DOMAIN scene.node[n].val

====
